---- MODULE Spec2Model ----
(***************************************************************************)
(* audiotsm.wsola: the WSOLA (Waveform Similarity-based Overlap-Add)       *)
(* converter and the wsola() factory, as a state machine.                  *)
(*                                                                         *)
(* An array of shape (channels, n) is a sequence of `channels` sequences   *)
(* of n samples.  Indices of the source are 0-based, those of the model    *)
(* 1-based: the source's analysis_frame[k, i] is analysis_frame[k+1][i+1]  *)
(* here.  A shift delta is kept 0-based, as the source computes it.        *)
(***************************************************************************)
EXTENDS Integers, Sequences, FiniteSets

\* ------------------------------------------------------------------ bounds
MaxChannels == 2
\* The longest extended frame, frame_length + tolerance + synthesis_hop.
MaxExtendedLength == 4
\* The largest array a caller hands over: channels * samples per channel.
MaxCells == 6
\* The sample values the arrays are drawn from.
Samples == {0, 1}

VARIABLES
    channels,             \* self._channels
    frame_length,         \* self._frame_length
    synthesis_hop,        \* self._synthesis_hop
    tolerance,            \* self._tolerance
    synthesis_frame,      \* self._synthesis_frame, shape (channels, frame_length)
    natural_progression,  \* self._natural_progression, same shape
    first,                \* self._first
    op,                   \* the last operation called on the converter
    was_first,            \* self._first as the last convert_frame call found it
    analysis_frame,       \* the argument of the last convert_frame call
    delta,                \* the shift chosen for each channel by that call
    cross_correlation,    \* the scores computed for each channel by that call
    raised,               \* whether that call raised instead of returning
    twin,                 \* a second converter, run beside the first one
    args,                 \* the arguments of the wsola() call
    tsm                   \* the arguments wsola() hands to AnalysisSynthesisTSM

config == <<channels, frame_length, synthesis_hop, tolerance>>

converter == <<synthesis_frame, natural_progression, first>>

call == <<op, was_first, analysis_frame, delta, cross_correlation, raised>>

vars == <<config, converter, call, twin, args, tsm>>

\* Python's None; an optional argument that is given is <<value>>.
None == <<>>

\* No second converter runs beside the first one.
NoTwin == [role |-> "none"]

\* ------------------------------------------------------------ numpy, Python
Min(a, b) == IF a <= b THEN a ELSE b

Max(a, b) == IF a >= b THEN a ELSE b

\* s[i:j] for 0 <= i, 0 <= j: Python clips both ends to the length of s.
Slice(s, i, j) == SubSeq(s, Min(i, Len(s)) + 1, Min(j, Len(s)))

\* s[:-h] for h >= 0.  -0 is 0, so s[:-0] is s[:0], the empty array.
DropLast(s, h) == IF h = 0 THEN <<>> ELSE SubSeq(s, 1, Max(Len(s) - h, 0))

RECURSIVE Dot(_, _, _, _)
\* sum over n in 1..len of a[i + n] * v[j + n]
Dot(a, i, v, j) ==
    IF j >= Len(v) \/ i >= Len(a) THEN 0
    ELSE a[i + 1] * v[j + 1] + Dot(a, i + 1, v, j + 1)

\* np.correlate raises ValueError when either array is empty.
CorrelateRaises(a, v) == Len(a) = 0 \/ Len(v) = 0

\* np.correlate(a, v), mode 'valid': c[k] = sum_n a[n + k] * v[n] over the
\* offsets k where the shorter array lies inside the longer one.
Correlate(a, v) ==
    IF Len(a) >= Len(v)
    THEN [i \in 1..(Len(a) - Len(v) + 1) |-> Dot(a, i - 1, v, 0)]
    ELSE [j \in 1..(Len(v) - Len(a) + 1) |-> Dot(a, 0, v, Len(v) - Len(a) - (j - 1))]

\* Mutant of Argmax: the last occurrence of the maximum.
ArgmaxLast(s) ==
    (CHOOSE i \in 1..Len(s) :
        /\ \A j \in 1..Len(s) : s[j] <= s[i]
        /\ \A j \in (i + 1)..Len(s) : s[j] < s[i]) - 1

\* np.argmax: the 0-based index of the first occurrence of the maximum.
Argmax(s) ==
    (CHOOSE i \in 1..Len(s) :
        /\ \A j \in 1..Len(s) : s[j] <= s[i]
        /\ \A j \in 1..(i - 1) : s[j] < s[i]) - 1

\* np.copyto(dst, src) for 1-d arrays: src must have dst's length or length 1
\* (broadcast); anything else raises ValueError.
CopyRaises(dst, src) == Len(src) # Len(dst) /\ Len(src) # 1

CopyTo(dst, src) ==
    IF Len(src) = Len(dst) THEN src ELSE [i \in 1..Len(dst) |-> src[1]]

\* np.empty((rows, cols)): the contents are whatever the allocator returns.
\* Each buffer starts filled with one arbitrary sample.
Empty(rows, cols) ==
    {[r \in 1..rows |-> [c \in 1..cols |-> g]] : g \in Samples}

\* ------------------------------------------------------------ the converter
\* The registers of one convert_frame call.
Call(sf, np, f) ==
    [synthesis_frame |-> sf, natural_progression |-> np, first |-> f,
     delta |-> <<>>, cross_correlation |-> <<>>, raised |-> FALSE]

\* analysis_frame[k, :-self._synthesis_hop], the samples the search runs over.
Searched(row) == DropLast(row, synthesis_hop)

\* Mutant of Reference: every channel is correlated against channel 0.
ReferenceOfChannelZero(np, k) == np[1]

\* self._natural_progression[k], what channel k is correlated against.
Reference(np, k) == np[k]

\* Mutant of ChooseShift: the search runs on the first frame too.
ChooseShiftAlwaysSearching(is_first, cc) == Argmax(cc)

\* delta, lines 38-44.
ChooseShift(is_first, cc) == IF is_first THEN 0 ELSE Argmax(cc)

\* analysis_frame[k, delta:delta + self._frame_length], line 49.
Shifted(row, d) == Slice(row, d, d + frame_length)

\* Mutant of Progression: delta is not advanced by the synthesis hop.
ProgressionWithoutHop(row, d) == Slice(row, d, d + frame_length)

\* delta += self._synthesis_hop; analysis_frame[k, delta:delta + L], lines 53-55.
Progression(row, d) ==
    Slice(row, d + synthesis_hop, d + synthesis_hop + frame_length)

\* One iteration of the loop over k (lines 38-55), k 1-based.
ChannelStep(st, frame, k) ==
    LET Raise(s) == [s EXCEPT !.raised = TRUE] IN
    IF k > Len(frame) THEN Raise(st)                       \* IndexError
    ELSE
    LET row == frame[k]
        ref == Reference(st.natural_progression, k)
    IN
    IF ~st.first /\ CorrelateRaises(Searched(row), ref)
    THEN Raise(st)                                         \* ValueError
    ELSE
    LET cc == IF st.first THEN <<>> ELSE Correlate(Searched(row), ref)
        d == ChooseShift(st.first, Correlate(Searched(row), ref))
        st1 == [st EXCEPT !.delta = Append(@, d),
                          !.cross_correlation = Append(@, cc)]
    IN
    IF CopyRaises(st.synthesis_frame[k], Shifted(row, d)) THEN Raise(st1)
    ELSE
    LET st2 == [st1 EXCEPT !.synthesis_frame[k] = CopyTo(@, Shifted(row, d))]
    IN
    IF CopyRaises(st.natural_progression[k], Progression(row, d)) THEN Raise(st2)
    ELSE [st2 EXCEPT !.natural_progression[k] = CopyTo(@, Progression(row, d))]

RECURSIVE ConvertLoop(_, _, _, _)
\* for k in range(0, self._channels), left as soon as an iteration raises.
ConvertLoop(n, st, frame, k) ==
    IF k > n THEN st
    ELSE LET r == ChannelStep(st, frame, k)
         IN IF r.raised THEN r ELSE ConvertLoop(n, r, frame, k + 1)

\* WSOLAConverter.convert_frame of a converter of n channels, as a function of
\* its fields; self._first = False is reached only when the loop completes.
Convert(n, sf, np, f, frame) ==
    LET r == ConvertLoop(n, Call(sf, np, f), frame, 1)
    IN IF r.raised THEN r ELSE [r EXCEPT !.first = FALSE]

\* ------------------------------------------------------------------ inputs
ExtendedLength == frame_length + tolerance + synthesis_hop

Configs ==
    {c \in [channels : 1..MaxChannels, frame_length : 1..MaxExtendedLength,
            synthesis_hop : 0..MaxExtendedLength, tolerance : 0..MaxExtendedLength] :
        /\ c.frame_length + c.tolerance + c.synthesis_hop <= MaxExtendedLength
        /\ c.channels * (c.frame_length + c.tolerance + c.synthesis_hop) <= MaxCells}

Array(rows, cols) == [1..rows -> [1..cols -> Samples]]

\* The frames the contract asks for: channels rows of ExtendedLength samples.
WellFormedFrames == Array(channels, ExtendedLength)

WellFormed(frame) ==
    /\ Len(frame) = channels
    /\ \A k \in 1..Len(frame) : Len(frame[k]) = ExtendedLength

\* ----------------------------------------------------------------- actions
\* WSOLAConverter.__init__
Construct(c) ==
    /\ channels = c.channels
    /\ frame_length = c.frame_length
    /\ synthesis_hop = c.synthesis_hop
    /\ tolerance = c.tolerance
    /\ synthesis_frame \in Empty(c.channels, c.frame_length)
    /\ natural_progression \in Empty(c.channels, c.frame_length)
    /\ first = TRUE
    /\ op = "__init__"
    /\ was_first = TRUE
    /\ analysis_frame = <<>>
    /\ delta = <<>>
    /\ cross_correlation = <<>>
    /\ raised = FALSE

Init ==
    /\ \E c \in Configs : Construct(c)
    /\ twin = NoTwin
    /\ args = None
    /\ tsm = None

\* Mutant of Clear: self._first is left as it is.
ClearKeepingFirst ==
    /\ first' = first
    /\ op' = "clear"
    /\ was_first' = TRUE
    /\ analysis_frame' = <<>>
    /\ delta' = <<>>
    /\ cross_correlation' = <<>>
    /\ raised' = FALSE
    /\ UNCHANGED <<config, synthesis_frame, natural_progression, args, tsm>>

\* WSOLAConverter.clear
Clear ==
    /\ first' = TRUE
    /\ op' = "clear"
    /\ was_first' = TRUE
    /\ analysis_frame' = <<>>
    /\ delta' = <<>>
    /\ cross_correlation' = <<>>
    /\ raised' = FALSE
    /\ UNCHANGED <<config, synthesis_frame, natural_progression, args, tsm>>

\* WSOLAConverter.convert_frame
ConvertFrame(frame) ==
    \E r \in {Convert(channels, synthesis_frame, natural_progression, first, frame)} :
    /\ synthesis_frame' = r.synthesis_frame
    /\ natural_progression' = r.natural_progression
    /\ first' = r.first
    /\ op' = "convert_frame"
    /\ was_first' = first
    /\ analysis_frame' = frame
    /\ delta' = r.delta
    /\ cross_correlation' = r.cross_correlation
    /\ raised' = r.raised
    /\ UNCHANGED <<config, args, tsm>>

\* The converter driven as its contract asks.
Next ==
    \/ \E frame \in WellFormedFrames : ConvertFrame(frame) /\ UNCHANGED twin
    \/ Clear /\ UNCHANGED twin

Spec == Init /\ [][Next]_vars

\* The converter driven with arrays of any shape, right or wrong, of at most
\* MaxSmallCells samples in all.
MaxSmallCells == 4

SmallConfigs ==
    {c \in Configs :
        c.channels * (c.frame_length + c.tolerance + c.synthesis_hop) <= MaxSmallCells}

Shapes ==
    {s \in (1..(MaxChannels + 1)) \X (0..MaxSmallCells) : s[1] * s[2] <= MaxSmallCells}

Frames == UNION {Array(s[1], s[2]) : s \in Shapes}

InitAnyShape ==
    /\ \E c \in SmallConfigs : Construct(c)
    /\ twin = NoTwin
    /\ args = None
    /\ tsm = None

NextAnyShape ==
    \/ \E frame \in Frames : ConvertFrame(frame) /\ UNCHANGED twin
    \/ Clear /\ UNCHANGED twin

SpecAnyShape == InitAnyShape /\ [][NextAnyShape]_vars

\* ------------------------------------------------- two converters side by side
MaxClears == 2

\* A second converter of n channels, as __init__ leaves it.
NewTwin(role, n, k, used) ==
    {[role |-> role, channel |-> k, used |-> used, clears |-> 1,
      synthesis_frame |-> sf, natural_progression |-> np, first |-> TRUE,
      delta |-> <<>>, raised |-> FALSE] :
        sf \in Empty(n, frame_length), np \in Empty(n, frame_length)}

\* convert_frame on the second converter.
TwinConvert(frame) ==
    \E r \in {Convert(Len(twin.synthesis_frame), twin.synthesis_frame,
                      twin.natural_progression, twin.first, frame)} :
        twin' = [twin EXCEPT !.synthesis_frame = r.synthesis_frame,
                             !.natural_progression = r.natural_progression,
                             !.first = r.first, !.delta = r.delta,
                             !.raised = r.raised]

\* A converter with a history is cleared, once or more in a row, and from then
\* on is fed the same frames as a converter that has just been constructed
\* with the same configuration.
HistoryFrame(frame) ==
    /\ twin.role = "none"
    /\ ConvertFrame(frame)
    /\ UNCHANGED twin

HistoryClear ==
    /\ twin.role = "none"
    /\ Clear
    /\ UNCHANGED twin

ClearBesideNew ==
    /\ twin.role = "none"
    /\ Clear
    /\ twin' \in NewTwin("new", channels, 0, ~first)

ClearAgain ==
    /\ twin.role = "new" /\ op = "clear" /\ twin.clears < MaxClears
    /\ Clear
    /\ twin' = [twin EXCEPT !.clears = @ + 1]

ConvertBoth(frame) ==
    /\ twin.role = "new"
    /\ ConvertFrame(frame)
    /\ TwinConvert(frame)

NextClear ==
    \/ \E frame \in WellFormedFrames : HistoryFrame(frame)
    \/ HistoryClear
    \/ ClearBesideNew
    \/ ClearAgain
    \/ \E frame \in WellFormedFrames : ConvertBoth(frame)

SpecClear == InitAnyShape /\ [][NextClear]_vars

\* A converter of two or more channels runs beside a converter of one channel
\* that is fed channel twin.channel of every frame, and cleared when it is.
InitMono ==
    /\ \E c \in Configs : c.channels >= 2 /\ Construct(c)
    /\ \E k \in 1..channels : twin \in NewTwin("mono", 1, k, FALSE)
    /\ args = None
    /\ tsm = None

ConvertBesideMono(frame) ==
    /\ ConvertFrame(frame)
    /\ TwinConvert(<<frame[twin.channel]>>)

ClearBesideMono ==
    /\ Clear
    /\ twin' = [twin EXCEPT !.first = TRUE]

NextMono ==
    \/ \E frame \in WellFormedFrames : ConvertBesideMono(frame)
    \/ ClearBesideMono

SpecMono == InitMono /\ [][NextMono]_vars

\* C6: the shift chosen for channel k, the synthesis frame emitted for it and
\* natural_progression[k] are, at every call, those of a one-channel converter
\* fed channel k alone: they are a function of the channel's own samples, so two
\* runs that agree on channel k agree on them, whatever the other channels hold.
ChannelIndependence ==
    (twin.role = "mono" /\ op = "convert_frame") =>
        /\ raised = twin.raised
        /\ first = twin.first
        /\ ~raised =>
            /\ delta[twin.channel] = twin.delta[1]
            /\ synthesis_frame[twin.channel] = twin.synthesis_frame[1]
            /\ natural_progression[twin.channel] = twin.natural_progression[1]

\* C6 witness: a call after the first has chosen a shift for channel k that is
\* not the shift of another channel, whose samples differ.
ChannelsShiftedApart ==
    /\ twin.role = "mono" /\ op = "convert_frame" /\ ~was_first /\ ~raised
    /\ delta[twin.channel] = twin.delta[1]
    /\ \E j \in 1..channels :
        /\ delta[j] # delta[twin.channel]
        /\ analysis_frame[j] # analysis_frame[twin.channel]

\* C7: once cleared, one or more times in a row, a converter chooses the shifts
\* and emits the synthesis frames of a newly constructed converter fed the same
\* frames, whatever it processed before.
ClearedLikeNew ==
    twin.role = "new" =>
        /\ first = twin.first
        /\ op = "convert_frame" =>
            /\ raised = twin.raised
            /\ delta = twin.delta
            /\ ~raised => synthesis_frame = twin.synthesis_frame

\* C7 witness: a converter that had processed frames and was cleared twice in a
\* row has searched a frame, as the new converter beside it has.
ClearedTwiceThenSearched ==
    /\ twin.role = "new" /\ twin.used /\ twin.clears = 2
    /\ op = "convert_frame" /\ ~was_first /\ ~raised
    /\ \E k \in 1..channels : delta[k] >= 1
    /\ synthesis_frame = twin.synthesis_frame


\* ------------------------------------------------------------------ wsola()
MaxSpeedNumerator == 4

\* A speed is num / den.  Halves and wholes are exact as floats, and so are
\* their products with the hops of the model.
Speeds == [num : 1..MaxSpeedNumerator, den : {1, 2}]

Optional(S) == {None} \cup {<<v>> : v \in S}

Arguments ==
    [channels : 1..MaxChannels, speed : Speeds,
     frame_length : 1..MaxExtendedLength,
     analysis_hop : Optional(1..MaxExtendedLength),
     synthesis_hop : Optional(0..MaxExtendedLength),
     tolerance : Optional(0..MaxExtendedLength)]

\* int(num / den): a float is truncated towards zero.
IntOf(num, den) ==
    IF num >= 0 THEN num \div den ELSE -((-num) \div den)

\* Lines 93-94.
ResolveSynthesisHop(given, length) ==
    IF given = None THEN length \div 2 ELSE given[1]

\* Mutant of ResolveAnalysisHop: the speed is applied to a given hop too.
ResolveAnalysisHopScalingGiven(given, hop, speed) ==
    IF given = None THEN IntOf(hop * speed.num, speed.den)
    ELSE IntOf(given[1] * speed.num, speed.den)

\* Lines 96-97.
ResolveAnalysisHop(given, hop, speed) ==
    IF given = None THEN IntOf(hop * speed.num, speed.den) ELSE given[1]

\* Lines 99-100.
ResolveTolerance(given, length) ==
    IF given = None THEN length \div 2 ELSE given[1]

\* Mutant of Padding: the synthesis hop is left out.
PaddingWithoutHop(tol, hop) == tol

\* The last argument of the AnalysisSynthesisTSM call, line 111.
Padding(tol, hop) == tol + hop

\* The arguments of the AnalysisSynthesisTSM call, lines 108-111, in order; the
\* converter stands as the arguments of its constructor (lines 105-106), the
\* Hanning window as its length (line 103).
Resolve(a) ==
    LET hop == ResolveSynthesisHop(a.synthesis_hop, a.frame_length)
        tol == ResolveTolerance(a.tolerance, a.frame_length)
    IN <<<<a.channels, a.frame_length, hop, tol>>,
         a.channels, a.frame_length,
         ResolveAnalysisHop(a.analysis_hop, hop, a.speed), hop,
         None, <<"hanning", a.frame_length>>,
         tol, Padding(tol, hop)>>

\* Before the call: no converter yet.
InitDeriver ==
    /\ args \in Arguments
    /\ tsm = None
    /\ channels = 0
    /\ frame_length = 0
    /\ synthesis_hop = 0
    /\ tolerance = 0
    /\ synthesis_frame = <<>>
    /\ natural_progression = <<>>
    /\ first = TRUE
    /\ op = "import"
    /\ was_first = TRUE
    /\ analysis_frame = <<>>
    /\ delta = <<>>
    /\ cross_correlation = <<>>
    /\ raised = FALSE
    /\ twin = NoTwin

\* wsola(**args): resolves the hops and the tolerance, constructs the converter
\* (WSOLAConverter.__init__) and hands both to AnalysisSynthesisTSM.
Wsola ==
    /\ op = "import"
    /\ \E r \in {Resolve(args)} :
        /\ tsm' = r
        /\ channels' = r[1][1]
        /\ frame_length' = r[1][2]
        /\ synthesis_hop' = r[1][3]
        /\ tolerance' = r[1][4]
        /\ synthesis_frame' \in Empty(r[1][1], r[1][2])
        /\ natural_progression' \in Empty(r[1][1], r[1][2])
    /\ first' = TRUE
    /\ op' = "wsola"
    /\ UNCHANGED <<was_first, analysis_frame, delta, cross_correlation, raised,
                   twin, args>>

NextDeriver == Wsola

SpecDeriver == InitDeriver /\ [][NextDeriver]_vars

\* ------------------------------------------------------------------ claims
RECURSIVE ScoreUpTo(_, _, _, _)
ScoreUpTo(row, ref, i, n) ==
    IF n = 0 THEN 0 ELSE ScoreUpTo(row, ref, i, n - 1) + row[i + n] * ref[n]

\* score(i) = sum over n in 0..L-1 of row[i + n] * ref[n], indices 0-based.
Score(row, ref, i) == ScoreUpTo(row, ref, i, frame_length)

\* The smallest index in 0..T that maximises the score.
BestShift(row, ref) ==
    CHOOSE d \in 0..tolerance :
        /\ \A i \in 0..tolerance : Score(row, ref, i) <= Score(row, ref, d)
        /\ \A i \in 0..(d - 1) : Score(row, ref, i) < Score(row, ref, d)

FirstFrameNoShift ==
    [][(op \in {"__init__", "clear"} /\ op' = "convert_frame") =>
        /\ first /\ ~raised'
        /\ \A k \in 1..channels :
            /\ delta'[k] = 0
            /\ synthesis_frame'[k] = SubSeq(analysis_frame'[k], 1, frame_length)]_vars

\* C2 witness: a first call has emitted the head of a frame that is not
\* constant, under a tolerance that leaves room for a shift.
FirstFrameEmitted ==
    /\ op = "convert_frame" /\ was_first /\ ~raised /\ tolerance >= 1
    /\ \E k \in 1..channels :
        /\ delta[k] = 0
        /\ synthesis_frame[k] = SubSeq(analysis_frame[k], 1, frame_length)
        /\ \E i, j \in 1..Len(analysis_frame[k]) :
              analysis_frame[k][i] # analysis_frame[k][j]

\* C3: with Hs <= L, every call after the first on a frame of L+T+Hs samples
\* per channel computes T+1 scores and chooses a shift in 0..T on every channel.
ShiftWithinTolerance ==
    (/\ op = "convert_frame" /\ ~was_first
     /\ WellFormed(analysis_frame) /\ synthesis_hop <= frame_length) =>
        /\ ~raised
        /\ \A k \in 1..channels :
            /\ Len(cross_correlation[k]) = tolerance + 1
            /\ delta[k] \in 0..tolerance

\* C4: a convert_frame call that returns with shift d on channel k leaves
\* natural_progression[k] = analysis_frame[k][d+Hs : d+Hs+L], L samples that lie
\* inside the frame; and a call made when self._first is false scores its frame
\* against the natural progression it finds.
PredictionConsistency ==
    [][(op' = "convert_frame" /\ ~raised' /\ WellFormed(analysis_frame')) =>
        \A k \in 1..channels :
            LET d == delta'[k] + synthesis_hop IN
            /\ d + frame_length <= Len(analysis_frame'[k])
            /\ Len(natural_progression'[k]) = frame_length
            /\ natural_progression'[k]
                 = SubSeq(analysis_frame'[k], d + 1, d + frame_length)
            /\ ~first =>
                 cross_correlation'[k] =
                    [i \in 1..(tolerance + 1) |->
                        Score(analysis_frame'[k], natural_progression[k], i - 1)]]_vars

\* C4 witness: a call has chosen a shift that is not 0 and stored the
\* progression that starts a synthesis hop after it.
ProgressionStoredAfterShift ==
    /\ op = "convert_frame" /\ ~was_first /\ ~raised /\ synthesis_hop >= 1
    /\ \E k \in 1..channels :
        /\ delta[k] >= 1
        /\ natural_progression[k]
             = SubSeq(analysis_frame[k], delta[k] + synthesis_hop + 1,
                      delta[k] + synthesis_hop + frame_length)
        /\ natural_progression[k] # SubSeq(analysis_frame[k], 1, frame_length)

\* C5: a convert_frame call on an array whose channel count or per-channel
\* length is not the configured one raises.
MalformedFrameRejected ==
    (op = "convert_frame" /\ ~WellFormed(analysis_frame)) => raised

\* C9: a convert_frame call that raises on a malformed array leaves self._first
\* and self._natural_progression as it found them (stated for the calls made
\* when self._first is false, whose natural progression the next call reads).
FailedCallChangesNothing ==
    [][(op' = "convert_frame" /\ raised' /\ ~WellFormed(analysis_frame') /\ ~first) =>
        /\ first' = first
        /\ natural_progression' = natural_progression]_vars

\* floor(n / d) for n >= 0, d > 0.
Floor(n, d) == CHOOSE q \in 0..n : q * d <= n /\ n < (q + 1) * d

\* C8: wsola() resolves Hs = synthesis_hop if given else floor(L/2),
\* Ha = analysis_hop if given else floor(Hs * speed), T = tolerance if given else
\* floor(L/2); the padding it hands over, the last argument of the
\* AnalysisSynthesisTSM call, is T + Hs; the converter is built with
\* (channels, L, Hs, T); and with analysis_hop given, every speed resolves to
\* the same arguments.
DeriverResolution ==
    op = "wsola" =>
        LET L == args.frame_length
            Hs == IF args.synthesis_hop = None THEN Floor(L, 2)
                  ELSE args.synthesis_hop[1]
            Ha == IF args.analysis_hop = None
                  THEN Floor(Hs * args.speed.num, args.speed.den)
                  ELSE args.analysis_hop[1]
            T == IF args.tolerance = None THEN Floor(L, 2) ELSE args.tolerance[1]
        IN /\ tsm[5] = Hs /\ tsm[4] = Ha /\ tsm[8] = T
           /\ tsm[9] = T + Hs
           /\ tsm[1] = <<args.channels, L, Hs, T>>
           /\ config = <<args.channels, L, Hs, T>>
           /\ first
           /\ args.analysis_hop # None =>
                \A s \in Speeds : Resolve([args EXCEPT !.speed = s]) = tsm

\* C8 witness: a call with analysis_hop given, the other hops defaulted, at a
\* speed that would have resolved another analysis hop.
GivenAnalysisHopResolved ==
    /\ op = "wsola"
    /\ args.analysis_hop # None /\ args.synthesis_hop = None /\ args.tolerance = None
    /\ tsm[4] # Floor(tsm[5] * args.speed.num, args.speed.den)
    /\ tsm[9] = tolerance + synthesis_hop /\ synthesis_hop >= 1

\* C10 as stated: every configuration wsola() resolves has Hs <= L, and T + Hs
\* within the padding handed over.
ConfigurationInvariant ==
    op = "wsola" =>
        /\ synthesis_hop <= frame_length
        /\ tolerance + synthesis_hop <= tsm[9]

\* C10 amended: every configuration wsola() resolves has T + Hs within the
\* padding handed over, and has Hs <= L exactly when synthesis_hop is left to
\* its default or given a value of at most frame_length: wsola() passes a given
\* synthesis_hop on as it is.
ConfigurationInvariantUnlessGiven ==
    op = "wsola" =>
        /\ tolerance + synthesis_hop <= tsm[9]
        /\ synthesis_hop <= frame_length <=>
              \/ args.synthesis_hop = None
              \/ args.synthesis_hop[1] <= args.frame_length

\* C10 witness: a configuration resolved from the defaults of synthesis_hop and
\* of tolerance, with a hop of at least 1.
DefaultConfigurationResolved ==
    /\ op = "wsola"
    /\ args.synthesis_hop = None /\ args.tolerance = None
    /\ synthesis_hop >= 1 /\ synthesis_hop <= frame_length
    /\ tsm[9] = tolerance + synthesis_hop

====
